---- MODULE Spec2Model ----
(***************************************************************************)
(* Model of opnsense_phpipam_sync.py: the OPNsense -> phpIPAM sync job.    *)
(*                                                                         *)
(* Strings are sequences of one-character strings, so that strip() and    *)
(* lower() are computed and not assumed.  Python's None (also what         *)
(* dict.get returns for a missing key) is the value None.                  *)
(***************************************************************************)
EXTENDS Integers, Sequences, FiniteSets, TLC

\* ------------------------------------------------------------------------
\* Bounds of the model
\* ------------------------------------------------------------------------
MaxLeases == 2
MaxArp == 1
MaxRemote == 2
MaxRuns == 2

\* ------------------------------------------------------------------------
\* Python values
\* ------------------------------------------------------------------------
None == <<"None">>

Whitespace == {" "}

EmptyStr == <<>>

SeqsUpTo(S, n) == UNION {[1..k -> S] : k \in 0..n}

\* str.strip(): drop leading and trailing whitespace
RECURSIVE lstrip(_)
lstrip(s) ==
  IF s # <<>> /\ Head(s) \in Whitespace THEN lstrip(Tail(s)) ELSE s

RECURSIVE rstrip(_)
rstrip(s) ==
  IF s # <<>> /\ s[Len(s)] \in Whitespace
  THEN rstrip(SubSeq(s, 1, Len(s) - 1))
  ELSE s

strip(s) == rstrip(lstrip(s))

\* str.lower() on the letters the model uses
LowerChar(c) ==
  CASE c = "H" -> "h"
    [] c = "T" -> "t"
    [] c = "P" -> "p"
    [] c = "S" -> "s"
    [] c = "N" -> "n"
    [] c = "O" -> "o"
    [] c = "M" -> "m"
    [] OTHER -> c

lower(s) == [k \in 1..Len(s) |-> LowerChar(s[k])]

\* (x or ""): None and the empty string are both falsy
OrEmpty(v) == IF v = None \/ v = EmptyStr THEN EmptyStr ELSE v

\* Python truthiness of a string-or-None value
Truthy(v) == v # None /\ v # EmptyStr

\* ------------------------------------------------------------------------
\* merge_sources
\* ------------------------------------------------------------------------
\* A dict keyed by ip is a sequence of its values in insertion order.
Keys(d) == {d[k].ip : k \in 1..Len(d)}

Get(d, ip) == d[CHOOSE k \in 1..Len(d) : d[k].ip = ip]

\* hosts[ip] = h: an existing key keeps its position, a new key is appended
DictSet(d, h) ==
  IF h.ip \in Keys(d)
  THEN [k \in 1..Len(d) |-> IF d[k].ip = h.ip THEN h ELSE d[k]]
  ELSE Append(d, h)

\* a slip: the ip of an ARP entry taken as it comes, not stripped
ArpHostUnstripped(entry) ==
  [ip |-> OrEmpty(entry.ip),
   mac |-> strip(OrEmpty(entry.mac)),
   hostname |-> EmptyStr]

ArpHost(entry) ==
  [ip |-> strip(OrEmpty(entry.ip)),
   mac |-> strip(OrEmpty(entry.mac)),
   hostname |-> EmptyStr]

LeaseHost(lease) ==
  [ip |-> strip(OrEmpty(lease.address)),
   mac |-> strip(OrEmpty(lease.mac)),
   hostname |-> strip(OrEmpty(lease.hostname))]

RECURSIVE MergeArp(_, _)
MergeArp(arp_entries, hs) ==
  IF arp_entries = <<>> THEN hs
  ELSE LET h == ArpHost(Head(arp_entries))
       IN MergeArp(Tail(arp_entries),
                   IF h.ip # EmptyStr THEN DictSet(hs, h) ELSE hs)

RECURSIVE MergeLeases(_, _)
MergeLeases(ls, hs) ==
  IF ls = <<>> THEN hs
  ELSE LET h == LeaseHost(Head(ls))
       IN MergeLeases(Tail(ls),
                      IF h.ip # EmptyStr THEN DictSet(hs, h) ELSE hs)

\* a slip: the ARP entries written after the leases, so that they overwrite
merge_sources_arp_last(ls, arp_entries) ==
  MergeArp(arp_entries, MergeLeases(ls, <<>>))

merge_sources(ls, arp_entries) == MergeLeases(ls, MergeArp(arp_entries, <<>>))

\* ------------------------------------------------------------------------
\* Configuration: get_env, load_config
\* ------------------------------------------------------------------------
HTTP == <<"h", "t", "t", "p">>
HTTPS == <<"h", "t", "t", "p", "s">>
TRUE_STR == <<"t", "r", "u", "e">>
FalseStrings == {<<"f", "a", "l", "s", "e">>, <<"0">>, <<"n", "o">>}

\* the required variables, in the order load_config reads them
RequiredVars ==
  <<"OPNSENSE_HOST", "OPNSENSE_KEY", "OPNSENSE_SECRET", "PHPIPAM_HOST",
    "PHPIPAM_APP_ID", "PHPIPAM_APP_CODE", "PHPIPAM_SUBNET_ID">>

\* os.environ.get(name, default): an unset variable is None in the model
EnvironGet(environ, name, default) ==
  IF environ[name] = None THEN default ELSE environ[name]

\* get_env: the stripped value; raises EnvironmentError when it is empty
get_env_value(environ, name) == strip(EnvironGet(environ, name, EmptyStr))

get_env_raises(environ, name) == get_env_value(environ, name) = EmptyStr

\* load_config: [error, name, config]; error is "" when a config is returned
load_config(environ, files) ==
  LET verify_ssl_raw == lower(strip(EnvironGet(environ, "OPNSENSE_VERIFY_SSL", TRUE_STR)))
      verify_flag == verify_ssl_raw \notin FalseStrings
      verify_ssl == IF verify_flag /\ verify_ssl_raw \in files
                    THEN verify_ssl_raw
                    ELSE IF verify_flag THEN <<"True">> ELSE <<"False">>
      phpipam_scheme == lower(strip(EnvironGet(environ, "PHPIPAM_SCHEME", HTTPS)))
      missing == {k \in 1..Len(RequiredVars) : get_env_raises(environ, RequiredVars[k])}
      first == CHOOSE k \in missing : \A j \in missing : k <= j
  IN IF phpipam_scheme \notin {HTTP, HTTPS}
     THEN [error |-> "ValueError", name |-> "PHPIPAM_SCHEME", config |-> <<>>]
     ELSE IF missing # {}
     THEN [error |-> "EnvironmentError", name |-> RequiredVars[first], config |-> <<>>]
     ELSE [error |-> "", name |-> "",
           config |->
             [opnsense_host |-> get_env_value(environ, "OPNSENSE_HOST"),
              opnsense_key |-> get_env_value(environ, "OPNSENSE_KEY"),
              opnsense_secret |-> get_env_value(environ, "OPNSENSE_SECRET"),
              opnsense_verify_ssl |-> verify_ssl,
              phpipam_host |-> get_env_value(environ, "PHPIPAM_HOST"),
              phpipam_scheme |-> phpipam_scheme,
              phpipam_app_id |-> get_env_value(environ, "PHPIPAM_APP_ID"),
              phpipam_app_code |-> get_env_value(environ, "PHPIPAM_APP_CODE"),
              phpipam_subnet_id |-> get_env_value(environ, "PHPIPAM_SUBNET_ID")]]

\* main's handler: only EnvironmentError is caught (and turned into exit 1)
MainCatches == {"EnvironmentError"}

\* ------------------------------------------------------------------------
\* State
\* ------------------------------------------------------------------------
VARIABLES
  environ,     \* os.environ: variable name -> string, None when unset
  files,       \* the paths for which os.path.isfile holds
  fwLeases,    \* body of the firewall's searchLease response
  fwArp,       \* body of the firewall's getArp response
  ipam,        \* the IPAM system's address records, in its listing order
  pc,          \* position of the process
  config,      \* main: config
  leases,      \* sync: leases (merge_sources: its first argument)
  arp,         \* sync: arp (merge_sources: its second argument)
  hosts,       \* sync: hosts
  token,       \* sync: token
  existing,    \* sync: existing
  i,           \* number of entries of hosts.items() the loop has finished
  summary,     \* sync: summary
  calls,       \* the HTTP requests this run has sent, in order
  returned,    \* what sync returned to main (NotReturned until it returns)
  exitStatus,  \* status passed to sys.exit (NoExit when it was not called)
  error,       \* the exception that ended the run ("" when none)
  run,         \* number of the current invocation of the job
  prev,        \* how the previous invocation ended ("none" for the first)
  ipam0        \* ipam as it was when the current invocation started

vars ==
  <<environ, files, fwLeases, fwArp, ipam, pc, config, leases, arp, hosts,
    token, existing, i, summary, calls, returned, exitStatus, error, run,
    prev, ipam0>>

envVars == <<environ, files, fwLeases, fwArp>>

NotReturned == [none |-> TRUE]
NoExit == <<>>
NoError == [type |-> "", about |-> ""]
NoToken == None
TOKEN == <<"t", "o", "k">>
Summary0 == [created |-> 0, updated |-> 0, skipped |-> 0]
NoExisting == <<>>

\* ------------------------------------------------------------------------
\* The two collaborators as the program sees them
\* ------------------------------------------------------------------------
\* fetch_dhcp_leases: data.get("rows", [])
LeaseRows(body) == IF "rows" \in DOMAIN body THEN body.rows ELSE <<>>

\* fetch_arp_table: the body when it is a list, [] otherwise
ArpRows(body) == IF body.kind = "list" THEN body.value ELSE <<>>

\* raise_for_status raises for the 4xx and 5xx statuses
RaisesForStatus(status) == status >= 400 /\ status < 600

\* a slip: the 404 not tolerated
InventoryRaisesAlso404(status) == status >= 400 /\ status < 600

\* get_subnet_addresses: a 404 is tolerated before raise_for_status is asked
InventoryRaises(status) == status # 404 /\ RaisesForStatus(status)

\* the records the IPAM system lists for a subnet
SubnetRecords(records, subnet_id) ==
  SelectSeq(records, LAMBDA r : r.subnetId = subnet_id)

\* {addr["ip"]: addr for addr in addresses if addr.get("ip")}: a later
\* address with the same ip replaces an earlier one
ExistingOf(addresses) ==
  LET kept == {k \in 1..Len(addresses) : Truthy(addresses[k].ip)}
      last(ip) == CHOOSE k \in kept :
                    /\ addresses[k].ip = ip
                    /\ \A j \in kept : addresses[j].ip = ip => j <= k
  IN [ip \in {addresses[k].ip : k \in kept} |-> addresses[last(ip)]]

\* a slip: the mac sent as the hostname
CreatePayloadMixedUp(subnet_id, host_info) ==
  [subnetId |-> subnet_id, ip |-> host_info.ip, mac |-> host_info.mac,
   hostname |-> host_info.mac]

\* create_address: the JSON body of the POST
CreatePayload(subnet_id, host_info) ==
  [subnetId |-> subnet_id, ip |-> host_info.ip, mac |-> host_info.mac,
   hostname |-> host_info.hostname]

\* a slip: the hostname left out of the body
UpdatePayloadMacOnly(host_info) == [mac |-> host_info.mac]

\* a slip: the body of a create request, without its subnet, sent as update
UpdatePayloadAsCreate(host_info) ==
  [subnetId |-> EmptyStr, ip |-> host_info.ip, mac |-> host_info.mac,
   hostname |-> host_info.hostname]

\* update_address: the JSON body of the PUT
UpdatePayload(host_info) ==
  [mac |-> host_info.mac, hostname |-> host_info.hostname]

\* a slip: the two values compared without regard to case
NeedsUpdateIgnoreCase(current, host_info) ==
  \/ lower(current.mac) # lower(host_info.mac)
  \/ lower(current.hostname) # lower(host_info.hostname)

\* a slip: only the mac compared
NeedsUpdateMacOnly(current, host_info) == current.mac # host_info.mac

\* sync's test for an update: either field differs from the canonical host
NeedsUpdate(current, host_info) ==
  current.mac # host_info.mac \/ current.hostname # host_info.hostname

\* the IPAM system applying a POST /addresses/: a new record with a new id
ServerCreate(records, payload) ==
  Append(records,
         [id |-> Len(records) + 1, ip |-> payload.ip, mac |-> payload.mac,
          hostname |-> payload.hostname, subnetId |-> payload.subnetId])

\* the IPAM system applying a PUT /addresses/{id}/: the fields of the body
ServerUpdate(records, address_id, payload) ==
  [k \in 1..Len(records) |->
     IF records[k].id = address_id
     THEN [f \in DOMAIN records[k] |->
             IF f \in DOMAIN payload THEN payload[f] ELSE records[k][f]]
     ELSE records[k]]

\* one request as sent: the operation, whether it ended without an exception,
\* the status (inventory fetch), the canonical host it is for and the record
\* id it targets (writes), and its JSON body (writes)
Call(op, ok, status, host, id, payload) ==
  [op |-> op, ok |-> ok, status |-> status, host |-> host, id |-> id,
   payload |-> payload]

\* ------------------------------------------------------------------------
\* Actions
\* ------------------------------------------------------------------------
\* the classes of HTTP status of the inventory fetch: 2xx, 3xx, 404 and the
\* other error statuses
InventoryStatuses == {200, 300, 404, 500}

\* how a write request can end: answered without an error status (and
\* applied), refused with an error status, or applied with the answer lost
\* (the 10 s timeout)
WriteOutcomes == {"ok", "rejected", "lost"}

Raise(type, about) ==
  /\ pc' = "uncaught"
  /\ error' = [type |-> type, about |-> about]

\* main: logging setup, load_config, then sync(config) up to its first request
Main ==
  /\ pc = "main"
  /\ LET r == load_config(environ, files)
     IN IF r.error = ""
        THEN /\ config' = r.config
             /\ summary' = Summary0
             /\ pc' = "fetch_leases"
             /\ UNCHANGED <<exitStatus, error>>
        ELSE IF r.error \in MainCatches
        THEN /\ pc' = "exit"
             /\ exitStatus' = <<1>>
             /\ error' = [type |-> r.error, about |-> r.name]
             /\ UNCHANGED <<config, summary>>
        ELSE /\ Raise(r.error, r.name)
             /\ UNCHANGED <<config, summary, exitStatus>>
  /\ UNCHANGED <<envVars, ipam, leases, arp, hosts, token, existing, i, calls,
                 returned, run, prev, ipam0>>

\* sync: leases = fetch_dhcp_leases(...)
FetchDhcpLeases ==
  /\ pc = "fetch_leases"
  /\ \E ok \in BOOLEAN :
       /\ calls' = Append(calls, Call("leases", ok, 0, EmptyStr, 0, <<>>))
       /\ IF ok
          THEN /\ leases' = LeaseRows(fwLeases)
               /\ pc' = "fetch_arp"
               /\ UNCHANGED error
          ELSE /\ Raise("HTTPError", "leases")
               /\ UNCHANGED leases
  /\ UNCHANGED <<envVars, ipam, config, arp, hosts, token, existing, i,
                 summary, returned, exitStatus, run, prev, ipam0>>

\* sync: arp = fetch_arp_table(...); hosts = merge_sources(leases, arp)
FetchArpTable ==
  /\ pc = "fetch_arp"
  /\ \E ok \in BOOLEAN :
       /\ calls' = Append(calls, Call("arp", ok, 0, EmptyStr, 0, <<>>))
       /\ IF ok
          THEN /\ arp' = ArpRows(fwArp)
               /\ hosts' = merge_sources(leases, arp')
               /\ pc' = "auth"
               /\ UNCHANGED error
          ELSE /\ Raise("HTTPError", "arp")
               /\ UNCHANGED <<arp, hosts>>
  /\ UNCHANGED <<envVars, ipam, config, leases, token, existing, i, summary,
                 returned, exitStatus, run, prev, ipam0>>

\* a slip: the token taken from the response without the test for its absence
PhpipamAuthenticateUnchecked ==
  /\ pc = "auth"
  /\ \E ok \in BOOLEAN, tok \in {TOKEN, NoToken, EmptyStr} :
       /\ calls' = Append(calls, Call("auth", ok /\ Truthy(tok), 0, EmptyStr, 0, <<>>))
       /\ IF ~ok
          THEN /\ Raise("HTTPError", "auth")
               /\ UNCHANGED token
          ELSE /\ token' = tok
               /\ pc' = "inventory"
               /\ UNCHANGED error
  /\ UNCHANGED <<envVars, ipam, config, leases, arp, hosts, existing, i,
                 summary, returned, exitStatus, run, prev, ipam0>>

\* sync: token = phpipam_authenticate(...)
PhpipamAuthenticate ==
  /\ pc = "auth"
  /\ \E ok \in BOOLEAN, tok \in {TOKEN, NoToken, EmptyStr} :
       /\ calls' = Append(calls, Call("auth", ok /\ Truthy(tok), 0, EmptyStr, 0, <<>>))
       /\ IF ~ok
          THEN /\ Raise("HTTPError", "auth")
               /\ UNCHANGED token
          ELSE IF ~Truthy(tok)
          THEN /\ Raise("RuntimeError", "auth")
               /\ UNCHANGED token
          ELSE /\ token' = tok
               /\ pc' = "inventory"
               /\ UNCHANGED error
  /\ UNCHANGED <<envVars, ipam, config, leases, arp, hosts, existing, i,
                 summary, returned, exitStatus, run, prev, ipam0>>

\* sync: existing = get_subnet_addresses(...).  A 2xx answer lists the
\* subnet's records; a 3xx answer is not raised for, and its body either is
\* no JSON (response.json() raises) or is JSON without data.
GetSubnetAddresses ==
  /\ pc = "inventory"
  /\ \E status \in InventoryStatuses, json \in BOOLEAN :
       /\ status \in {200, 404, 500} => json
       /\ calls' = Append(calls,
            Call("inventory", ~InventoryRaises(status) /\ json, status, EmptyStr, 0, <<>>))
       /\ IF status = 404
          THEN /\ existing' = NoExisting
               /\ pc' = "loop"
               /\ UNCHANGED error
          ELSE IF InventoryRaises(status)
          THEN /\ Raise("HTTPError", "inventory")
               /\ UNCHANGED existing
          ELSE IF ~json
          THEN /\ Raise("JSONDecodeError", "inventory")
               /\ UNCHANGED existing
          ELSE /\ existing' =
                    IF status = 200
                    THEN ExistingOf(SubnetRecords(ipam, config.phpipam_subnet_id))
                    ELSE ExistingOf(<<>>)
               /\ pc' = "loop"
               /\ UNCHANGED error
  /\ i' = 0
  /\ UNCHANGED <<envVars, ipam, config, leases, arp, hosts, token, summary,
                 returned, exitStatus, run, prev, ipam0>>

\* a slip: a failed create swallowed, the pass going on to the next host
CreateAddressGoesOn ==
  /\ pc = "loop"
  /\ i < Len(hosts)
  /\ LET host_info == hosts[i + 1]
         payload == [subnetId |-> config.phpipam_subnet_id, ip |-> host_info.ip,
                     mac |-> host_info.mac, hostname |-> host_info.hostname]
     IN /\ host_info.ip \notin DOMAIN existing
        /\ \E outcome \in WriteOutcomes :
             /\ calls' = Append(calls,
                  Call("create", outcome = "ok", 0, host_info.ip, 0, payload))
             /\ ipam' = IF outcome = "rejected" THEN ipam
                        ELSE ServerCreate(ipam, payload)
             /\ summary' = IF outcome = "ok"
                           THEN [summary EXCEPT !.created = @ + 1]
                           ELSE summary
             /\ i' = i + 1
  /\ UNCHANGED <<envVars, config, leases, arp, hosts, token, existing,
                 returned, exitStatus, run, prev, ipam0, pc, error>>

\* loop body, first branch: ip not in existing -> create_address
CreateAddress ==
  /\ pc = "loop"
  /\ i < Len(hosts)
  /\ LET host_info == hosts[i + 1]
         payload == CreatePayload(config.phpipam_subnet_id, host_info)
     IN /\ host_info.ip \notin DOMAIN existing
        /\ \E outcome \in WriteOutcomes :
             /\ calls' = Append(calls, Call("create", outcome = "ok", 0, host_info.ip, 0, payload))
             /\ ipam' = IF outcome = "rejected" THEN ipam
                        ELSE ServerCreate(ipam, payload)
             /\ IF outcome = "ok"
                THEN /\ summary' = [summary EXCEPT !.created = @ + 1]
                     /\ i' = i + 1
                     /\ UNCHANGED <<pc, error>>
                ELSE /\ Raise("HTTPError", "create")
                     /\ UNCHANGED <<summary, i>>
  /\ UNCHANGED <<envVars, config, leases, arp, hosts, token, existing,
                 returned, exitStatus, run, prev, ipam0>>

\* loop body, second branch: a field differs -> update_address
UpdateAddress ==
  /\ pc = "loop"
  /\ i < Len(hosts)
  /\ LET host_info == hosts[i + 1]
         payload == UpdatePayload(host_info)
     IN /\ host_info.ip \in DOMAIN existing
        /\ NeedsUpdate(existing[host_info.ip], host_info)
        /\ LET current == existing[host_info.ip]
           IN \E outcome \in WriteOutcomes :
                /\ calls' = Append(calls,
                     Call("update", outcome = "ok", 0, host_info.ip, current.id, payload))
                /\ ipam' = IF outcome = "rejected" THEN ipam
                           ELSE ServerUpdate(ipam, current.id, payload)
                /\ IF outcome = "ok"
                   THEN /\ summary' = [summary EXCEPT !.updated = @ + 1]
                        /\ i' = i + 1
                        /\ UNCHANGED <<pc, error>>
                   ELSE /\ Raise("HTTPError", "update")
                        /\ UNCHANGED <<summary, i>>
  /\ UNCHANGED <<envVars, config, leases, arp, hosts, token, existing,
                 returned, exitStatus, run, prev, ipam0>>

\* a slip: an unchanged host passed over without being counted
SkipAddressUncounted ==
  /\ pc = "loop"
  /\ i < Len(hosts)
  /\ LET host_info == hosts[i + 1]
     IN /\ host_info.ip \in DOMAIN existing
        /\ ~NeedsUpdate(existing[host_info.ip], host_info)
  /\ i' = i + 1
  /\ UNCHANGED <<envVars, ipam, pc, config, leases, arp, hosts, token,
                 existing, calls, returned, exitStatus, error, run, prev,
                 ipam0, summary>>

\* loop body, third branch: nothing differs -> skipped
SkipAddress ==
  /\ pc = "loop"
  /\ i < Len(hosts)
  /\ LET host_info == hosts[i + 1]
     IN /\ host_info.ip \in DOMAIN existing
        /\ ~NeedsUpdate(existing[host_info.ip], host_info)
  /\ summary' = [summary EXCEPT !.skipped = @ + 1]
  /\ i' = i + 1
  /\ UNCHANGED <<envVars, ipam, pc, config, leases, arp, hosts, token,
                 existing, calls, returned, exitStatus, error, run, prev,
                 ipam0>>

\* the loop is over: log and return summary
Return ==
  /\ pc = "loop"
  /\ i = Len(hosts)
  /\ returned' = summary
  /\ pc' = "done"
  /\ UNCHANGED <<envVars, ipam, config, leases, arp, hosts, token, existing,
                 i, summary, calls, exitStatus, error, run, prev, ipam0>>

\* the external scheduler starts the job again; nothing is kept between runs
Rerun ==
  /\ pc \in {"done", "exit", "uncaught"}
  /\ run < MaxRuns
  /\ run' = run + 1
  /\ prev' = pc
  /\ ipam0' = ipam
  /\ pc' = "main"
  /\ config' = <<>>
  /\ leases' = <<>>
  /\ arp' = <<>>
  /\ hosts' = <<>>
  /\ token' = NoToken
  /\ existing' = NoExisting
  /\ i' = 0
  /\ summary' = Summary0
  /\ calls' = <<>>
  /\ returned' = NotReturned
  /\ exitStatus' = NoExit
  /\ error' = NoError
  /\ UNCHANGED <<envVars, ipam>>

\* a direct call merge_sources(leases, arp_entries)
MergeCall ==
  /\ pc = "merge"
  /\ hosts' = merge_sources(leases, arp)
  /\ pc' = "merged"
  /\ UNCHANGED <<envVars, ipam, config, leases, arp, token, existing, i,
                 summary, calls, returned, exitStatus, error, run, prev,
                 ipam0>>

\* ------------------------------------------------------------------------
\* Inputs
\* ------------------------------------------------------------------------
A == <<"a">>
B == <<"b">>
SUBNET == <<"3">>
OTHER_SUBNET == <<"9">>

Lease(address, mac, hostname) ==
  [address |-> address, mac |-> mac, hostname |-> hostname]

ArpEntry(ip, mac) == [ip |-> ip, mac |-> mac]

Record(id, ip, mac, hostname, subnet_id) ==
  [id |-> id, ip |-> ip, mac |-> mac, hostname |-> hostname,
   subnetId |-> subnet_id]

\* an environment in which load_config succeeds
GoodEnviron ==
  [name \in {"OPNSENSE_HOST", "OPNSENSE_KEY", "OPNSENSE_SECRET",
             "PHPIPAM_HOST", "PHPIPAM_APP_ID", "PHPIPAM_APP_CODE",
             "PHPIPAM_SUBNET_ID", "PHPIPAM_SCHEME", "OPNSENSE_VERIFY_SSL"} |->
     CASE name = "PHPIPAM_SUBNET_ID" -> <<" ", "3">>
       [] name \in {"PHPIPAM_SCHEME", "OPNSENSE_VERIFY_SSL"} -> None
       [] OTHER -> <<"v">>]

\* sync: what the firewall and the IPAM system may hold
SyncLeases ==
  {Lease(ip, mac, <<"h">>) : ip \in {A, <<" ", "b">>}, mac \in {<<"m">>, <<"M">>}}
    \cup {Lease(A, None, None)}

SyncArps ==
  {ArpEntry(A, <<"m">>), ArpEntry(B, <<"m">>), ArpEntry(B, None),
   ArpEntry(<<"c">>, <<"m">>)}

SyncRecords ==
  {[ip |-> A, mac |-> <<"m">>, hostname |-> <<"h">>, subnetId |-> SUBNET],
   [ip |-> B, mac |-> <<"m">>, hostname |-> <<"h">>, subnetId |-> SUBNET],
   [ip |-> A, mac |-> None, hostname |-> EmptyStr, subnetId |-> SUBNET],
   [ip |-> B, mac |-> <<"M">>, hostname |-> <<"h">>, subnetId |-> SUBNET],
   [ip |-> EmptyStr, mac |-> <<"m">>, hostname |-> <<"h">>, subnetId |-> SUBNET],
   [ip |-> A, mac |-> <<"m">>, hostname |-> <<"h">>, subnetId |-> OTHER_SUBNET]}

\* the IPAM system numbers its records
Numbered(rs) ==
  [k \in 1..Len(rs) |->
     Record(k, rs[k].ip, rs[k].mac, rs[k].hostname, rs[k].subnetId)]

LeaseBodies(S, n) ==
  {[rows |-> rows] : rows \in SeqsUpTo(S, n)} \cup {[total |-> 0]}

ArpBodies(S, n) ==
  {[kind |-> "list", value |-> v] : v \in SeqsUpTo(S, n)}
    \cup {[kind |-> "object", value |-> <<>>]}

\* merge_sources: the observations it may be given
MergeIps ==
  {None, EmptyStr, <<" ">>, <<"a">>, <<" ", "a">>, <<"a", " ">>,
   <<" ", "a", " ">>, <<"b">>}

MergeLeaseSet ==
  {Lease(ip, None, <<" ", "h">>) : ip \in MergeIps}
    \cup {Lease(ip, <<"m", " ">>, None) : ip \in MergeIps}

MergeArpSet == {ArpEntry(ip, mac) : ip \in MergeIps, mac \in {None, <<"n">>}}

\* main: the environments it may be started in
EnvValues(name) ==
  CASE name = "PHPIPAM_SCHEME" ->
         {None, EmptyStr, <<" ", "H", "T", "T", "P", " ">>, HTTPS, <<"f", "t", "p">>}
    [] name = "OPNSENSE_VERIFY_SSL" -> {None, <<"N", "o">>, <<"c", "a">>}
    [] name = "PHPIPAM_SUBNET_ID" -> {None, <<" ">>, <<" ", "3">>}
    [] OTHER -> {None, <<" ">>, <<"v">>}

Environs ==
  [OPNSENSE_HOST : EnvValues("OPNSENSE_HOST"),
   OPNSENSE_KEY : EnvValues("OPNSENSE_KEY"),
   OPNSENSE_SECRET : EnvValues("OPNSENSE_SECRET"),
   PHPIPAM_HOST : EnvValues("PHPIPAM_HOST"),
   PHPIPAM_APP_ID : EnvValues("PHPIPAM_APP_ID"),
   PHPIPAM_APP_CODE : EnvValues("PHPIPAM_APP_CODE"),
   PHPIPAM_SUBNET_ID : EnvValues("PHPIPAM_SUBNET_ID"),
   PHPIPAM_SCHEME : EnvValues("PHPIPAM_SCHEME"),
   OPNSENSE_VERIFY_SSL : EnvValues("OPNSENSE_VERIFY_SSL")]

\* ------------------------------------------------------------------------
\* Specifications
\* ------------------------------------------------------------------------
InitProgram ==
  /\ config = <<>>
  /\ hosts = <<>>
  /\ token = NoToken
  /\ existing = NoExisting
  /\ i = 0
  /\ summary = Summary0
  /\ calls = <<>>
  /\ returned = NotReturned
  /\ exitStatus = NoExit
  /\ error = NoError
  /\ run = 1
  /\ prev = "none"
  /\ ipam0 = ipam

\* the job, started with a valid configuration
Init ==
  /\ environ = GoodEnviron
  /\ files = {}
  /\ fwLeases \in LeaseBodies(SyncLeases, MaxLeases)
  /\ fwArp \in ArpBodies(SyncArps, MaxArp)
  /\ ipam \in {Numbered(rs) : rs \in SeqsUpTo(SyncRecords, MaxRemote)}
  /\ pc = "main"
  /\ leases = <<>>
  /\ arp = <<>>
  /\ InitProgram

Next ==
  \/ Main
  \/ FetchDhcpLeases
  \/ FetchArpTable
  \/ PhpipamAuthenticate
  \/ GetSubnetAddresses
  \/ CreateAddress
  \/ UpdateAddress
  \/ SkipAddress
  \/ Return
  \/ Rerun

Spec == Init /\ [][Next]_vars

\* merge_sources called on its own
InitMerge ==
  /\ environ = GoodEnviron
  /\ files = {}
  /\ fwLeases = [rows |-> <<>>]
  /\ fwArp = [kind |-> "list", value |-> <<>>]
  /\ ipam = <<>>
  /\ pc = "merge"
  /\ leases \in SeqsUpTo(MergeLeaseSet, MaxLeases)
  /\ arp \in SeqsUpTo(MergeArpSet, MaxArp)
  /\ InitProgram

NextMerge == MergeCall

SpecMerge == InitMerge /\ [][NextMerge]_vars

\* the job, started in any environment, against one firewall and one IPAM
InitMain ==
  /\ environ \in Environs
  /\ files \in {{}, {<<"c", "a">>}}
  /\ fwLeases = [rows |-> <<Lease(A, <<"M">>, <<"h">>), Lease(<<" ", "b">>, <<"m">>, <<"h">>)>>]
  /\ fwArp = [kind |-> "list", value |-> <<ArpEntry(B, None)>>]
  /\ ipam = Numbered(<<[ip |-> A, mac |-> <<"m">>, hostname |-> <<"h">>,
                        subnetId |-> SUBNET]>>)
  /\ pc = "main"
  /\ leases = <<>>
  /\ arp = <<>>
  /\ InitProgram

SpecMain == InitMain /\ [][Next]_vars

\* ------------------------------------------------------------------------
\* Claims about merge_sources (SpecMerge)
\* ------------------------------------------------------------------------
\* a field as the merger normalizes it
Norm(v) == strip(OrEmpty(v))

LeaseIps == {Norm(leases[k].address) : k \in 1..Len(leases)} \ {EmptyStr}

ArpIps == {Norm(arp[k].ip) : k \in 1..Len(arp)} \ {EmptyStr}

\* the last lease observation of an ip
LastLease(ip) ==
  leases[CHOOSE k \in 1..Len(leases) :
           /\ Norm(leases[k].address) = ip
           /\ \A j \in 1..Len(leases) : Norm(leases[j].address) = ip => j <= k]

\* C1: an IP that (trimmed) is in a lease and in an ARP entry maps to a
\* canonical host whose mac and hostname are both the lease's normalized
\* values (those of the last lease of that IP), whatever the ARP entry says,
\* also when the lease's fields are empty.
C1_LeaseWins ==
  pc = "merged" =>
    \A ip \in LeaseIps \cap ArpIps :
      /\ ip \in Keys(hosts)
      /\ Get(hosts, ip).ip = ip
      /\ Get(hosts, ip).mac = Norm(LastLease(ip).mac)
      /\ Get(hosts, ip).hostname = Norm(LastLease(ip).hostname)

\* C1 witness: merged, an IP in both sources (written differently in each),
\* the lease's mac empty and the ARP's mac not, and the host carries the
\* lease's empty mac and its trimmed hostname
C1_Witness ==
  /\ pc = "merged"
  /\ \E k \in 1..Len(leases), j \in 1..Len(arp) :
       /\ Norm(leases[k].address) = Norm(arp[j].ip)
       /\ Norm(arp[j].ip) = <<"a">>
       /\ leases[k].address # arp[j].ip
       /\ Norm(leases[k].mac) = EmptyStr
       /\ Norm(arp[j].mac) = <<"n">>
       /\ Len(leases) = 1
  /\ hosts = <<[ip |-> <<"a">>, mac |-> EmptyStr, hostname |-> <<"h">>]>>

\* C2: an observation whose IP is missing, null, empty or blank adds no
\* entry: the mapping has no empty key, holds one entry per key, and its keys
\* are exactly the distinct non-empty trimmed IPs of the two inputs.
C2_KeysAreTrimmedIps ==
  pc = "merged" =>
    /\ EmptyStr \notin Keys(hosts)
    /\ Keys(hosts) = LeaseIps \cup ArpIps
    /\ Cardinality(Keys(hosts)) = Len(hosts)
    /\ (leases = <<>> /\ arp = <<>>) => hosts = <<>>

\* C2 witness: a lease without an address and an ARP entry with a blank ip
\* are dropped while another lease is kept
C2_Witness ==
  /\ pc = "merged"
  /\ Len(leases) = 2
  /\ Len(arp) = 1
  /\ leases[1].address = None
  /\ arp[1].ip = <<" ">>
  /\ Norm(leases[2].address) # EmptyStr
  /\ Len(hosts) = 1

\* ------------------------------------------------------------------------
\* Claims about the per-IP pass of sync (Spec)
\* ------------------------------------------------------------------------
\* a write of the pass raised
WriteRaised == pc = "uncaught" /\ error.about \in {"create", "update"}

\* existing holds the mapping this run fetched
Fetched == pc \in {"loop", "done"} \/ WriteRaised

\* the number of canonical hosts whose loop body was entered
Entered == IF WriteRaised THEN i + 1 ELSE i

CallsFor(op, ip) ==
  {k \in 1..Len(calls) : calls[k].op = op /\ calls[k].host = ip}

\* the canonical hosts (by position) without a record in the fetched mapping
Absent == {k \in 1..Len(hosts) : hosts[k].ip \notin DOMAIN existing}

\* those with a record of which the mac or the hostname is another string
Differing ==
  {k \in 1..Len(hosts) :
     /\ hosts[k].ip \in DOMAIN existing
     /\ \/ existing[hosts[k].ip].mac # hosts[k].mac
        \/ existing[hosts[k].ip].hostname # hosts[k].hostname}

\* those with a record with the same mac and the same hostname
Identical ==
  {k \in 1..Len(hosts) :
     /\ hosts[k].ip \in DOMAIN existing
     /\ existing[hosts[k].ip].mac = hosts[k].mac
     /\ existing[hosts[k].ip].hostname = hosts[k].hostname}

\* C3: a canonical host whose IP is absent from the fetched mapping gets
\* exactly one create request once the pass reaches it (none before), with
\* the configured subnet id and the host's ip, mac and hostname, and never an
\* update request; created counts exactly the absent hosts the pass has
\* finished, so a completed run returns their number.
C3_AbsentIsCreatedOnce ==
  Fetched =>
    /\ \A k \in Absent :
         /\ CallsFor("update", hosts[k].ip) = {}
         /\ Cardinality(CallsFor("create", hosts[k].ip)) = IF k <= Entered THEN 1 ELSE 0
         /\ \A c \in CallsFor("create", hosts[k].ip) :
              calls[c].payload =
                [subnetId |-> strip(environ.PHPIPAM_SUBNET_ID), ip |-> hosts[k].ip,
                 mac |-> hosts[k].mac, hostname |-> hosts[k].hostname]
    /\ summary.created = Cardinality({k \in Absent : k <= i})
    /\ pc = "done" => returned.created = Cardinality(Absent)

\* C3 witness: a completed run of two hosts, one absent and created (its mac
\* and hostname differ), the other present
C3_Witness ==
  /\ pc = "done"
  /\ Len(hosts) = 2
  /\ Cardinality(Absent) = 1
  /\ returned.created = 1
  /\ \E k \in Absent :
       /\ hosts[k].mac # hosts[k].hostname
       /\ \E c \in CallsFor("create", hosts[k].ip) : calls[c].ok

\* C4: a canonical host whose record differs in mac or hostname (as strings,
\* case included) gets exactly one update request once the pass reaches it,
\* to that record's id and carrying exactly the host's mac and hostname, and
\* never a create request; updated counts exactly the differing hosts the
\* pass has finished.
C4_DifferingIsUpdatedOnce ==
  Fetched =>
    /\ \A k \in Differing :
         /\ CallsFor("create", hosts[k].ip) = {}
         /\ Cardinality(CallsFor("update", hosts[k].ip)) = IF k <= Entered THEN 1 ELSE 0
         /\ \A c \in CallsFor("update", hosts[k].ip) :
              /\ calls[c].id = existing[hosts[k].ip].id
              /\ calls[c].payload = [mac |-> hosts[k].mac, hostname |-> hosts[k].hostname]
    /\ summary.updated = Cardinality({k \in Differing : k <= i})
    /\ pc = "done" => returned.updated = Cardinality(Differing)

\* C4 witness: a completed run that updated a record whose mac differs from
\* the host's in case only
C4_Witness ==
  /\ pc = "done"
  /\ returned.updated = 1
  /\ \E k \in Differing :
       /\ hosts[k].mac = <<"M">>
       /\ existing[hosts[k].ip].mac = <<"m">>
       /\ existing[hosts[k].ip].hostname = hosts[k].hostname
       /\ \E c \in CallsFor("update", hosts[k].ip) : calls[c].ok

\* C5: a canonical host whose record has the same mac and the same hostname
\* gets no write request at all; skipped counts exactly the identical hosts
\* the pass has finished.
C5_IdenticalIsSkipped ==
  Fetched =>
    /\ \A k \in Identical :
         /\ CallsFor("create", hosts[k].ip) = {}
         /\ CallsFor("update", hosts[k].ip) = {}
    /\ summary.skipped = Cardinality({k \in Identical : k <= i})
    /\ pc = "done" => returned.skipped = Cardinality(Identical)

\* C5 witness: a completed first run that skipped one host and wrote another
C5_Witness ==
  /\ pc = "done"
  /\ run = 1
  /\ Len(hosts) = 2
  /\ returned.skipped = 1
  /\ Cardinality(Identical) = 1
  /\ \E k \in 1..Len(calls) : calls[k].op \in {"create", "update"}

\* ------------------------------------------------------------------------
\* Claims about whole runs (Spec)
\* ------------------------------------------------------------------------
InventoryCalls == {k \in 1..Len(calls) : calls[k].op = "inventory"}

Writes == {k \in 1..Len(calls) : calls[k].op \in {"create", "update"}}

\* C6: a run that completes after a completed run, on the same source data
\* and with an inventory fetch that lists the records as the first run left
\* them, sends no write request and returns created = 0, updated = 0, every
\* canonical host skipped.
C6_SecondRunIsNoOp ==
  (/\ pc = "done"
   /\ prev = "done"
   /\ \E k \in InventoryCalls : calls[k].status = 200)
  => /\ Writes = {}
     /\ returned = [created |-> 0, updated |-> 0, skipped |-> Len(hosts)]
     /\ ipam = ipam0

\* C6 witness: the second run skipped two hosts, one of them an ARP-only host
\* whose record (empty mac and hostname) only the first run can have written
C6_Witness ==
  /\ pc = "done"
  /\ prev = "done"
  /\ run = 2
  /\ \E k \in InventoryCalls : calls[k].status = 200
  /\ Len(hosts) = 2
  /\ returned.skipped = 2
  /\ \E j \in 1..Len(ipam) :
       /\ ipam[j].ip = B
       /\ ipam[j].mac = EmptyStr
       /\ ipam[j].hostname = EmptyStr
       /\ B \in Keys(hosts)

\* the IPs whose loop body the run has entered
EnteredIps == {hosts[k].ip : k \in 1..Entered}

\* C7: a run ends at its first failed call: no request follows a failed one,
\* the failed call is the run's last and nothing is returned; the records of
\* every IP the pass had not reached are as at the start of the run, and each
\* write that succeeded before is still in place.
C7_AbortOnFirstFailure ==
  /\ \A k \in 1..Len(calls) : k < Len(calls) => calls[k].ok
  /\ pc = "uncaught" =>
       /\ returned = NotReturned
       /\ exitStatus = NoExit
       /\ calls # <<>> =>
            /\ ~calls[Len(calls)].ok
            /\ calls[Len(calls)].op = error.about
       /\ Len(ipam) >= Len(ipam0)
       /\ \A j \in 1..Len(ipam) :
            \/ j <= Len(ipam0) /\ ipam[j] = ipam0[j]
            \/ WriteRaised /\ ipam[j].ip \in EnteredIps
  /\ \A c \in Writes :
       calls[c].ok =>
         \E j \in 1..Len(ipam) :
           /\ ipam[j].ip = calls[c].host
           /\ ipam[j].mac = calls[c].payload.mac
           /\ ipam[j].hostname = calls[c].payload.hostname
           /\ IF calls[c].op = "create" THEN j > Len(ipam0) ELSE ipam[j].id = calls[c].id

\* C7 witness: three hosts, the first written, the write of the second failed
\* after the server applied it, the third never reached though it has a record
C7_Witness ==
  /\ pc = "uncaught"
  /\ WriteRaised
  /\ Len(hosts) = 3
  /\ i = 1
  /\ calls[5].ok
  /\ calls[5].op \in {"create", "update"}
  /\ Len(calls) = 6
  /\ ipam # ipam0
  /\ \E j \in 1..Len(ipam0) : ipam0[j].ip = hosts[3].ip /\ ipam[j] = ipam0[j]

\* C8 as written: a 404 of the inventory fetch is no failure, gives an empty
\* existing mapping and a completed run with created = number of canonical
\* hosts, updated = 0, skipped = 0; any other status outside 2xx aborts.
C8_AnyNon2xxAborts ==
  \A k \in InventoryCalls :
    /\ calls[k].status = 404 =>
         /\ calls[k].ok
         /\ existing = NoExisting
         /\ pc = "done" =>
              returned = [created |-> Len(hosts), updated |-> 0, skipped |-> 0]
    /\ calls[k].status \notin {200, 404} =>
         pc = "uncaught" /\ error.about = "inventory"

\* C8 amended: as C8, the statuses that abort being the 4xx and 5xx ones
\* other than 404.
C8_NotFoundIsEmpty ==
  \A k \in InventoryCalls :
    /\ calls[k].status = 404 =>
         /\ calls[k].ok
         /\ existing = NoExisting
         /\ ~(pc = "uncaught" /\ error.about = "inventory")
         /\ \A c \in Writes : calls[c].op = "create"
         /\ pc = "done" =>
              returned = [created |-> Len(hosts), updated |-> 0, skipped |-> 0]
    /\ (calls[k].status >= 400 /\ calls[k].status # 404) =>
         pc = "uncaught" /\ error.about = "inventory" /\ Writes = {}

\* C8 witness: a 404 although the subnet holds the record of a host; the run
\* completed with three creates
C8_Witness ==
  /\ pc = "done"
  /\ \E k \in InventoryCalls : calls[k].status = 404
  /\ returned = [created |-> 3, updated |-> 0, skipped |-> 0]
  /\ \E j \in 1..Len(ipam0) : ipam0[j].ip \in Keys(hosts) /\ ipam0[j].subnetId = SUBNET

\* C10: against the records at the start of the run: none is deleted, none
\* changes its id, ip or subnet, a record that changed carries the mac and
\* hostname of the canonical host of its IP, a new record is the create of a
\* canonical host without a record in the fetched mapping (nor, when the
\* fetch listed the subnet, in the subnet), and an update request carries
\* nothing but mac and hostname.
C10_Frame ==
  /\ Len(ipam) >= Len(ipam0)
  /\ \A j \in 1..Len(ipam0) :
       /\ DOMAIN ipam[j] = DOMAIN ipam0[j]
       /\ ipam[j].id = ipam0[j].id
       /\ ipam[j].ip = ipam0[j].ip
       /\ ipam[j].subnetId = ipam0[j].subnetId
       /\ ipam[j] # ipam0[j] =>
            \E k \in 1..Len(hosts) :
              /\ hosts[k].ip = ipam0[j].ip
              /\ ipam[j].mac = hosts[k].mac
              /\ ipam[j].hostname = hosts[k].hostname
  /\ \A j \in (Len(ipam0) + 1)..Len(ipam) :
       /\ \E k \in 1..Len(hosts) :
            /\ hosts[k].ip \notin DOMAIN existing
            /\ ipam[j] = [id |-> j, ip |-> hosts[k].ip, mac |-> hosts[k].mac,
                          hostname |-> hosts[k].hostname,
                          subnetId |-> strip(environ.PHPIPAM_SUBNET_ID)]
       /\ \A j2 \in (Len(ipam0) + 1)..Len(ipam) : ipam[j2].ip = ipam[j].ip => j2 = j
       /\ (\E k \in InventoryCalls : calls[k].status = 200) =>
            \A j0 \in 1..Len(ipam0) :
              ipam0[j0].subnetId = strip(environ.PHPIPAM_SUBNET_ID) => ipam0[j0].ip # ipam[j].ip
  /\ \A c \in Writes :
       calls[c].op = "update" => DOMAIN calls[c].payload = {"mac", "hostname"}

\* C10 witness: a completed run that created a record and rewrote another,
\* beside a record whose IP is no canonical host
C10_Witness ==
  /\ pc = "done"
  /\ Len(ipam0) = 2
  /\ Len(ipam) > Len(ipam0)
  /\ \E j \in 1..2 : ipam[j] # ipam0[j]
  /\ \E j \in 1..2 : Truthy(ipam0[j].ip) /\ ipam0[j].ip \notin Keys(hosts)

\* ------------------------------------------------------------------------
\* Claims about startup (SpecMain)
\* ------------------------------------------------------------------------
\* a required setting is unset or blank
RequiredMissing ==
  \E k \in 1..Len(RequiredVars) :
    \/ environ[RequiredVars[k]] = None
    \/ strip(environ[RequiredVars[k]]) = EmptyStr

\* the URL scheme is set to something other than http or https
SchemeInvalid ==
  /\ environ.PHPIPAM_SCHEME # None
  /\ lower(strip(environ.PHPIPAM_SCHEME)) \notin {HTTP, HTTPS}

\* C9: with a configuration error (a required setting missing or blank, or a
\* scheme other than http and https) no request is ever sent, sync is never
\* started, and the process ends by sys.exit with status 1 and a message
\* naming the setting, never by an uncaught exception.
C9_ConfigErrorExitsCleanly ==
  (RequiredMissing \/ SchemeInvalid) =>
    /\ calls = <<>>
    /\ pc \in {"main", "exit"}
    /\ pc = "exit" => exitStatus = <<1>> /\ error.about # ""

\* ------------------------------------------------------------------------
\* Claims about the order of a run and its counters (Spec)
\* ------------------------------------------------------------------------
\* the four requests every write is preceded by, in their order
Preamble == <<"leases", "arp", "auth", "inventory">>

\* the position in hosts.items() of the host a write request is for
PositionOf(ip) == CHOOSE k \in 1..Len(hosts) : hosts[k].ip = ip

\* C11: the requests of a run come in the order lease fetch, ARP fetch,
\* authentication, inventory fetch, then the writes, one per host in the
\* order of the pass; a write is only sent after the four earlier requests
\* of the same run all succeeded; an authentication answer without a token
\* ends the run with its own error, before any inventory fetch or write.
C11_OrderOfRequests ==
  /\ \A k \in 1..Len(calls) :
       /\ k <= 4 => calls[k].op = Preamble[k]
       /\ k > 4 => calls[k].op \in {"create", "update"}
       /\ k > 1 => calls[k - 1].ok
  /\ \A c \in Writes :
       /\ c > 4
       /\ \A k \in 1..4 : calls[k].op = Preamble[k] /\ calls[k].ok
       /\ calls[c].host \in Keys(hosts)
       /\ PositionOf(calls[c].host) <= Entered
       /\ ~calls[c].ok => PositionOf(calls[c].host) = i + 1
       /\ \A d \in Writes :
            d < c => PositionOf(calls[d].host) < PositionOf(calls[c].host)
  /\ (pc = "uncaught" /\ error.type = "RuntimeError") =>
       /\ error.about = "auth"
       /\ Len(calls) = 3
       /\ ~calls[3].ok
       /\ InventoryCalls = {}
       /\ Writes = {}
       /\ ipam = ipam0
  /\ (Len(calls) >= 3 /\ ~calls[3].ok) => pc = "uncaught" /\ Len(calls) = 3

\* C11 witness: a run that sent the four requests and then a create and an
\* update for two different hosts
C11_Witness ==
  /\ pc = "done"
  /\ Len(calls) = 6
  /\ calls[5].op = "create"
  /\ calls[6].op = "update"
  /\ calls[5].host # calls[6].host

\* the hosts the pass has finished
Finished == 1..i

OkCallsFor(op, ip) == {c \in CallsFor(op, ip) : calls[c].ok}

\* C12: at every point the three counters add up to the number of hosts the
\* pass has finished and the requests that succeeded number created +
\* updated; each finished host is in exactly one counter (created: its
\* create succeeded, updated: its update succeeded, skipped: no request was
\* sent for it), so a completed run returns counters that add up to the
\* number of canonical hosts.
C12_OneDecisionPerIp ==
  /\ summary.created + summary.updated + summary.skipped = i
  /\ Cardinality({c \in Writes : calls[c].ok}) = summary.created + summary.updated
  /\ Fetched =>
       /\ i <= Len(hosts)
       /\ summary.created =
            Cardinality({k \in Finished : OkCallsFor("create", hosts[k].ip) # {}})
       /\ summary.updated =
            Cardinality({k \in Finished : OkCallsFor("update", hosts[k].ip) # {}})
       /\ summary.skipped =
            Cardinality({k \in Finished : /\ CallsFor("create", hosts[k].ip) = {}
                                          /\ CallsFor("update", hosts[k].ip) = {}})
       /\ \A k \in Finished :
            Cardinality(CallsFor("create", hosts[k].ip)
                          \cup CallsFor("update", hosts[k].ip)) <= 1
  /\ pc = "done" =>
       /\ returned = summary
       /\ returned.created + returned.updated + returned.skipped = Len(hosts)
  /\ pc # "done" => returned = NotReturned

\* C12 witness: a completed run of three hosts, one created, one updated and
\* one skipped
C12_Witness ==
  /\ pc = "done"
  /\ Len(hosts) = 3
  /\ returned = [created |-> 1, updated |-> 1, skipped |-> 1]

====
